---- MODULE Spec2Model ----
(***************************************************************************)
(* Model of the Factory Bridge (src-tauri): the closed command model       *)
(* (enforcer.rs), the process bridge and its event relay (bridge.rs) and   *)
(* the control surface (commands/run.rs, lib.rs).                          *)
(*                                                                         *)
(* The specifications share the state:                                     *)
(*   Spec          the application: start_run / abort_run requests served  *)
(*                 under the managed Mutex<FactoryBridge>, the worker and  *)
(*                 the relay thread;                                       *)
(*   SpecLive      Spec under fair scheduling of the handlers;             *)
(*   SpecBridge    the bridge's public methods called directly (spawn,     *)
(*                 send_command, is_running, kill, drop) under Rust's      *)
(*                 aliasing rule (&self shared, &mut self exclusive);      *)
(*   SpecSpawn     one caller of the bridge, with every exit of spawn;     *)
(*   SpecRelay     one caller, the workers' output and the relay threads;  *)
(*   SpecRelayLive the relay of one bridge under fair scheduling;          *)
(*   SpecEncode    the pure functions of the command model.                *)
(***************************************************************************)
EXTENDS Naturals, Sequences, FiniteSets, TLC

(***************************************************************************)
(* Bounds of the model.                                                    *)
(***************************************************************************)
\* number of worker processes the operating system will launch
MaxSpawns == 2
\* number of send_command calls that may be started
MaxSends == 2
\* number of lines a worker writes to its output
MaxEmit == 2
\* largest evidence sequence number drawn as a parameter
MaxSeq == 1

(***************************************************************************)
(* serde_json::Value.  A value is a tagged tuple; an object is a function  *)
(* from its keys to values.                                                *)
(***************************************************************************)
Null == <<"null">>
Str(s) == <<"str", s>>
Num(n) == <<"num", n>>
Obj(f) == <<"obj", f>>

IsStr(v) == v[1] = "str"
IsObj(v) == v[1] = "obj"

\* Option<T>: None is the empty sequence, Some(x) the sequence <<x>>.
None == <<>>
Some(x) == <<x>>

\* None written as the empty string
OptStrValueDefault(o) == IF o = None THEN Str("") ELSE Str(o[1])

\* Serialize for Option<String> inside json!: None is null
OptStrValue(o) == IF o = None THEN Null ELSE Str(o[1])

(***************************************************************************)
(* The closed command vocabulary: enum FactoryCommand.                     *)
(***************************************************************************)
Strings == {"a", "b"}
OptStrings == {None} \cup {Some(s) : s \in Strings}
Seqs == 0..MaxSeq

QueryCommands ==
    {[variant |-> "GetRunStatus"], [variant |-> "GetGateResults"], [variant |-> "GetRunHistory"]}
    \cup {[variant |-> "GetEvidenceEntry", seq |-> n] : n \in Seqs}
    \cup {[variant |-> "GetEvidenceRange", from |-> n, to |-> m] : n \in Seqs, m \in Seqs}
    \cup {[variant |-> "GetArtifact", path |-> s] : s \in Strings}
    \cup {[variant |-> "GetConsequenceMemory", domain |-> o] : o \in OptStrings}

FactoryCommand ==
    QueryCommands
    \cup {[variant |-> "StartRun", spec_path |-> s, blueprint_path |-> o] : s \in Strings, o \in OptStrings}
    \cup {[variant |-> "AbortRun", run_id |-> s] : s \in Strings}
    \cup {[variant |-> "ValidateSpec", spec_path |-> s] : s \in Strings}
    \cup {[variant |-> "DeriveSpecFromPlan", plan_text |-> s] : s \in Strings}

\* validate spec counted among the read-only variants
is_read_only_with_validate(c) ==
    c.variant \in {"GetRunStatus", "GetGateResults", "GetEvidenceEntry", "GetEvidenceRange",
                   "GetArtifact", "GetConsequenceMemory", "GetRunHistory", "ValidateSpec"}

\* FactoryCommand::is_read_only
is_read_only(c) ==
    c.variant \in {"GetRunStatus", "GetGateResults", "GetEvidenceEntry", "GetEvidenceRange",
                   "GetArtifact", "GetConsequenceMemory", "GetRunHistory"}

\* FactoryCommand::to_bridge_json, arm by arm
to_bridge_json(c) ==
    CASE c.variant = "StartRun" ->
           Obj([type |-> Str("start_run"), specPath |-> Str(c.spec_path),
                blueprintPath |-> OptStrValue(c.blueprint_path)])
      [] c.variant = "AbortRun" ->
           Obj([type |-> Str("abort_run"), runId |-> Str(c.run_id)])
      [] c.variant = "ValidateSpec" ->
           Obj([type |-> Str("validate_spec"), specPath |-> Str(c.spec_path)])
      [] c.variant = "DeriveSpecFromPlan" ->
           Obj([type |-> Str("derive_spec"), planText |-> Str(c.plan_text)])
      [] c.variant = "GetRunStatus" ->
           Obj([type |-> Str("query"), queryType |-> Str("run_status")])
      [] c.variant = "GetGateResults" ->
           Obj([type |-> Str("query"), queryType |-> Str("gate_results")])
      [] c.variant = "GetEvidenceEntry" ->
           Obj([type |-> Str("query"), queryType |-> Str("evidence_entry"),
                params |-> Obj([seq |-> Num(c.seq)])])
      [] c.variant = "GetEvidenceRange" ->
           Obj([type |-> Str("query"), queryType |-> Str("evidence_range"),
                params |-> Obj([from |-> Num(c.from), to |-> Num(c.to)])])
      [] c.variant = "GetArtifact" ->
           Obj([type |-> Str("query"), queryType |-> Str("artifact"),
                params |-> Obj([path |-> Str(c.path)])])
      [] c.variant = "GetConsequenceMemory" ->
           Obj([type |-> Str("query"), queryType |-> Str("consequence_memory"),
                params |-> Obj([domain |-> OptStrValue(c.domain)])])
      [] c.variant = "GetRunHistory" ->
           Obj([type |-> Str("query"), queryType |-> Str("run_history")])

(***************************************************************************)
(* Text.  A line of text is a sequence of tokens, each a tagged tuple:     *)
(*   <<"{">> <<"}">>           the braces of an object                     *)
(*   <<"kv", key, text>>       one member, its value as text               *)
(*   <<"lit", value>>          a scalar (string, number, null)             *)
(*   <<"sp">>                  one whitespace character                    *)
(*   <<"junk">>                characters that are no JSON                 *)
(* serde_json::to_string writes an object's members in the order of its    *)
(* map (a BTreeMap: by key), compactly, with no whitespace.                *)
(***************************************************************************)
KeyOrder == <<"a", "blueprintPath", "data", "domain", "event", "from", "params", "path",
              "planText", "queryType", "runId", "seq", "specPath", "to", "type">>

RECURSIVE to_string(_)
to_string(v) ==
    IF IsObj(v)
    THEN LET f == v[2]
             keys == SelectSeq(KeyOrder, LAMBDA k : k \in DOMAIN f)
         IN <<(<<"{">>)>> \o [i \in 1..Len(keys) |-> <<"kv", keys[i], to_string(f[keys[i]])>>]
                \o <<(<<"}">>)>>
    ELSE <<(<<"lit", v>>)>>


\* serde_json::from_str and Result
Ok(x) == <<"Ok", x>>
Err(m) == <<"Err", m>>
IsOk(r) == r[1] = "Ok"

NoSpace(text) == SelectSeq(text, LAMBDA tok : tok # <<"sp">>)

\* the index of the last member with key k (a repeated key keeps its last value)
LastMember(body, k) ==
    CHOOSE i \in 1..Len(body) :
        /\ body[i][2] = k
        /\ \A j \in (i+1)..Len(body) : body[j][2] # k

RECURSIVE from_str(_)
from_str(text) ==
    LET t == NoSpace(text)
    IN IF Len(t) = 1 /\ t[1][1] = "lit" THEN Ok(t[1][2])
       ELSE IF Len(t) >= 2 /\ t[1] = <<"{">> /\ t[Len(t)] = <<"}">>
       THEN LET body == SubSeq(t, 2, Len(t) - 1)
            IN IF \A i \in 1..Len(body) : body[i][1] = "kv" /\ IsOk(from_str(body[i][3]))
               THEN Ok(Obj([k \in {body[i][2] : i \in 1..Len(body)} |->
                              from_str(body[LastMember(body, k)][3])[2]]))
               ELSE Err("syntax")
       ELSE Err("syntax")

\* str::trim: the text without its leading and trailing whitespace
RECURSIVE TrimStart(_)
TrimStart(text) ==
    IF text # <<>> /\ Head(text) = <<"sp">> THEN TrimStart(Tail(text)) ELSE text

RECURSIVE TrimEnd(_)
TrimEnd(text) ==
    IF text # <<>> /\ text[Len(text)] = <<"sp">>
    THEN TrimEnd(SubSeq(text, 1, Len(text) - 1)) ELSE text

trim(text) == TrimEnd(TrimStart(text))

\* serde_json::from_str::<FactoryEvent>: struct FactoryEvent { event: String,
\* #[serde(flatten)] data: Value }
FactoryEvent(text) ==
    LET r == from_str(text)
    IN IF IsOk(r) /\ IsObj(r[2]) /\ "event" \in DOMAIN r[2][2] /\ IsStr(r[2][2]["event"])
       THEN LET f == r[2][2]
            IN Ok([event |-> f["event"][2],
                   data |-> Obj([k \in (DOMAIN f) \ {"event"} |-> f[k]])])
       ELSE Err("not an event")


(***************************************************************************)
(* State.                                                                  *)
(***************************************************************************)
VARIABLES
    child,          \* FactoryBridge.child: the pid of the Child held, or None
    stdin_writer,   \* FactoryBridge.stdin_writer: the pid whose input it writes, or None
    dropped,        \* the bridge has been discarded (Drop has run)
    launched,       \* number of worker processes launched so far (pids 1..launched)
    alive,          \* the pids of the worker processes that have not exited
    stdin,          \* per pid: the tokens written to the worker's input, in order
    stdout,         \* per pid: the lines the worker has written and the relay has not read
    relay,          \* per pid: "none", "running" or "stopped"
    relayed,        \* per pid: the lines the relay has read successfully, in order
    published,      \* per pid: the publications of its relay, in order
    emitted,        \* number of lines the workers have written
    bridgeLock,     \* holder of the managed Mutex<FactoryBridge>, or None
    writerLock,     \* holder of the Mutex around the write endpoint, or None
    pc,             \* per thread: its position
    op,             \* per thread: the entry point it is serving
    json,           \* per thread: the serde_json::Value handed to send_command
    ret,            \* per thread: the result its last call returned
    found,          \* per thread: the bridge as its request met it ("idle", "running")
    spawned,        \* per thread: the pid its request launched, 0 if none
    sends,          \* number of send_command calls started
    okSends,        \* number of send_command calls that returned Ok
    enc             \* the command-model evaluation of SpecEncode

vars == <<child, stdin_writer, dropped, launched, alive, stdin, stdout, relay, relayed,
          published, emitted, bridgeLock, writerLock, pc, op, json, ret, found, spawned,
          sends, okSends, enc>>

bridgeVars == <<child, stdin_writer, dropped>>
procVars == <<launched, alive, stdin>>
relayVars == <<stdout, relay, relayed, published, emitted>>
ghostVars == <<found, spawned>>

Threads == {"t1", "t2"}
Pids == 1..MaxSpawns

NoRet == <<"none">>
NL == <<"nl">>

\* FactoryBridge::new, and the state the application starts in (lib.rs)
InitBridge ==
    /\ child = None
    /\ stdin_writer = None
    /\ dropped = FALSE
    /\ launched = 0
    /\ alive = {}
    /\ stdin = [p \in Pids |-> <<>>]
    /\ stdout = [p \in Pids |-> <<>>]
    /\ relay = [p \in Pids |-> "none"]
    /\ relayed = [p \in Pids |-> <<>>]
    /\ published = [p \in Pids |-> <<>>]
    /\ emitted = 0
    /\ bridgeLock = None
    /\ writerLock = None
    /\ pc = [t \in Threads |-> "idle"]
    /\ op = [t \in Threads |-> "none"]
    /\ json = [t \in Threads |-> Null]
    /\ ret = [t \in Threads |-> NoRet]
    /\ found = [t \in Threads |-> "unset"]
    /\ spawned = [t \in Threads |-> 0]
    /\ sends = 0
    /\ okSends = 0

Init == InitBridge /\ enc = [phase |-> "none"]

\* the same bridge, with a command drawn for the command model to evaluate
InitEncode ==
    /\ InitBridge
    /\ enc \in {[phase |-> "command", cmd |-> c, value |-> Null, line |-> <<>>,
                 parsed |-> NoRet, read_only |-> None] : c \in FactoryCommand}

\* FactoryBridge::is_running
is_running == child # None

\* a lock that excludes nobody
BridgeLockBroken == TRUE
WriterLockBroken == TRUE

\* std::sync::Mutex::lock: the lock can be taken when nobody holds it
BridgeLockFree == bridgeLock = None
WriterLockFree == writerLock = None

\* a write to the worker's input pipe succeeds while the worker holds its read end
PipeOpen(p) == p \in alive

IsControl(t) == op[t] \in {"start_run", "abort_run"}

\* a return that keeps the MutexGuard
ReturnKeepsLock(t, r) ==
    /\ pc' = [pc EXCEPT ![t] = "idle"]
    /\ ret' = [ret EXCEPT ![t] = r]
    /\ bridgeLock' = bridgeLock

\* A call of thread t returns r to its caller.  A Control Surface handler returns
\* an error at once (the ? operator) and drops its MutexGuard on the way out.
Return(t, r) ==
    /\ pc' = [pc EXCEPT ![t] = "idle"]
    /\ ret' = [ret EXCEPT ![t] = r]
    /\ bridgeLock' = IF bridgeLock = Some(t) THEN None ELSE bridgeLock

\* the message of the handler that succeeded
Done(t) ==
    CASE op[t] = "start_run" -> Ok("run started")
      [] op[t] = "abort_run" -> Ok("abort requested")
      [] OTHER -> Ok("()")


(***************************************************************************)
(* Control Surface: commands/run.rs.  A handler runs on the thread pool;   *)
(* every step between two lock operations is one step of its thread.       *)
(***************************************************************************)
SpecPaths == {"a"}
BlueprintPaths == {None, Some("b")}
RunIds == {"a"}

\* a request begins: the per-request observations are reset
Begin(t, name, value) ==
    /\ pc[t] = "idle"
    /\ ~dropped
    /\ op' = [op EXCEPT ![t] = name]
    /\ json' = [json EXCEPT ![t] = value]
    /\ ret' = [ret EXCEPT ![t] = NoRet]
    /\ found' = [found EXCEPT ![t] = "unset"]
    /\ spawned' = [spawned EXCEPT ![t] = 0]

\* start_run is invoked: the command is built (run.rs 14-17)
StartRun(t, spec_path, blueprint_path) ==
    /\ sends < MaxSends
    /\ Begin(t, "start_run",
             to_bridge_json([variant |-> "StartRun", spec_path |-> spec_path,
                             blueprint_path |-> blueprint_path]))
    /\ pc' = [pc EXCEPT ![t] = "cs_lock"]
    /\ sends' = sends + 1
    /\ UNCHANGED <<bridgeVars, procVars, relayVars, bridgeLock, writerLock, okSends, enc>>

\* abort_run is invoked: the command is built (run.rs 33)
AbortRun(t, run_id) ==
    /\ sends < MaxSends
    /\ Begin(t, "abort_run", to_bridge_json([variant |-> "AbortRun", run_id |-> run_id]))
    /\ pc' = [pc EXCEPT ![t] = "cs_lock"]
    /\ sends' = sends + 1
    /\ UNCHANGED <<bridgeVars, procVars, relayVars, bridgeLock, writerLock, okSends, enc>>

\* bridge.lock() (run.rs 19 and 35).  abort_run makes no test of its own: what
\* it met behind the lock is recorded for it here.
CsLock(t) ==
    /\ pc[t] = "cs_lock"
    /\ BridgeLockFree
    /\ bridgeLock' = Some(t)
    /\ pc' = [pc EXCEPT ![t] = IF op[t] = "start_run" THEN "cs_check" ELSE "send_get"]
    /\ found' = [found EXCEPT ![t] = IF op[t] = "start_run" THEN @
                                     ELSE IF is_running THEN "running" ELSE "idle"]
    /\ UNCHANGED <<bridgeVars, procVars, relayVars, writerLock, op, json, ret, spawned,
                   sends, okSends, enc>>

\* the test inverted: spawn when Running, send at once when Idle
CsCheckInverted(t) ==
    /\ pc[t] = "cs_check"
    /\ found' = [found EXCEPT ![t] = IF is_running THEN "running" ELSE "idle"]
    /\ pc' = [pc EXCEPT ![t] = IF is_running THEN "spawn_check" ELSE "send_get"]
    /\ UNCHANGED <<bridgeVars, procVars, relayVars, bridgeLock, writerLock, op, json, ret,
                   spawned, sends, okSends, enc>>

\* if !b.is_running() { b.spawn(&app)?; } (run.rs 20-22)
CsCheck(t) ==
    /\ pc[t] = "cs_check"
    /\ found' = [found EXCEPT ![t] = IF is_running THEN "running" ELSE "idle"]
    /\ pc' = [pc EXCEPT ![t] = IF is_running THEN "send_get" ELSE "spawn_check"]
    /\ UNCHANGED <<bridgeVars, procVars, relayVars, bridgeLock, writerLock, op, json, ret,
                   spawned, sends, okSends, enc>>

(***************************************************************************)
(* FactoryBridge::spawn (bridge.rs 27-65)                                  *)
(***************************************************************************)
\* spawn without its already-running test
SpawnCheckMissing(t) ==
    /\ pc[t] = "spawn_check"
    /\ pc' = [pc EXCEPT ![t] = "spawn_launch"]
    /\ UNCHANGED <<bridgeVars, procVars, relayVars, bridgeLock, writerLock, op, json, ret,
                   ghostVars, sends, okSends, enc>>

\* if self.child.is_some() { return Err(already running) } (bridge.rs 28-30)
SpawnCheck(t) ==
    /\ pc[t] = "spawn_check"
    /\ IF child # None
       THEN Return(t, Err("factory process already running"))
       ELSE /\ pc' = [pc EXCEPT ![t] = "spawn_launch"]
            /\ UNCHANGED <<ret, bridgeLock>>
    /\ UNCHANGED <<bridgeVars, procVars, relayVars, writerLock, op, json, ghostVars,
                   sends, okSends, enc>>

\* Command::new("node")...spawn(), the streams, the relay thread, self.child
\* (bridge.rs 32-64).  The operating system launches the program or refuses.
LaunchOutcomes == {"launched", "refused"}

\* child.stdout.take() or child.stdin.take() is None (bridge.rs 40-41): the
\* program was launched and spawn returns through the ? with the Child, a
\* local of spawn, going out of scope.  A std::process::Child that goes out of
\* scope is neither killed nor waited for: the process runs on.  Command::spawn
\* hands out both streams whenever they were requested with Stdio::piped(), so
\* the application does not take these exits; SpecSpawn explores them.
StreamOutcomes == {"no_stdout", "no_stdin"}
SpawnOutcomes == LaunchOutcomes \cup StreamOutcomes

\* the result of a spawn that did not complete
SpawnError(outcome) ==
    CASE outcome = "refused" -> Err("failed to spawn factory")
      [] outcome = "no_stdout" -> Err("no stdout")
      [] outcome = "no_stdin" -> Err("no stdin")

SpawnLaunch(t, outcome) ==
    /\ pc[t] = "spawn_launch"
    /\ IF outcome = "launched"
       THEN /\ launched < MaxSpawns
            /\ launched' = launched + 1
            /\ alive' = alive \cup {launched + 1}
            /\ stdin_writer' = Some(launched + 1)
            /\ relay' = [relay EXCEPT ![launched + 1] = "running"]
            /\ child' = Some(launched + 1)
            /\ spawned' = [spawned EXCEPT ![t] = launched + 1]
            /\ IF op[t] = "start_run"
               THEN /\ pc' = [pc EXCEPT ![t] = "send_get"]
                    /\ UNCHANGED <<ret, bridgeLock>>
               ELSE Return(t, Ok("()"))
       ELSE IF outcome \in StreamOutcomes
       THEN /\ launched < MaxSpawns
            /\ launched' = launched + 1
            /\ alive' = alive \cup {launched + 1}
            /\ spawned' = [spawned EXCEPT ![t] = launched + 1]
            /\ Return(t, SpawnError(outcome))
            /\ UNCHANGED <<stdin_writer, relay, child>>
       ELSE /\ Return(t, SpawnError(outcome))
            /\ UNCHANGED <<launched, alive, stdin_writer, relay, child, spawned>>
    /\ UNCHANGED <<dropped, stdin, stdout, relayed, published, emitted, writerLock, op, json,
                   found, sends, okSends, enc>>

(***************************************************************************)
(* FactoryBridge::send_command (bridge.rs 67-83)                           *)
(***************************************************************************)
\* self.stdin_writer.as_ref().ok_or("factory process not running")? (68-71)
SendGet(t) ==
    /\ pc[t] = "send_get"
    /\ IF stdin_writer = None
       THEN Return(t, Err("factory process not running"))
       ELSE /\ pc' = [pc EXCEPT ![t] = "send_lock"]
            /\ UNCHANGED <<ret, bridgeLock>>
    /\ UNCHANGED <<bridgeVars, procVars, relayVars, writerLock, op, json, ghostVars,
                   sends, okSends, enc>>

\* writer.lock() (73)
SendLock(t) ==
    /\ pc[t] = "send_lock"
    /\ WriterLockFree
    /\ writerLock' = Some(t)
    /\ pc' = [pc EXCEPT ![t] = "send_write"]
    /\ UNCHANGED <<bridgeVars, procVars, relayVars, bridgeLock, op, json, ret, ghostVars,
                   sends, okSends, enc>>

\* a write endpoint that stays that of the first worker
WriteAllToFirst(t, bytes, next, error) ==
    /\ stdin' = [stdin EXCEPT ![1] = @ \o bytes]
    /\ pc' = [pc EXCEPT ![t] = next]
    /\ UNCHANGED <<ret, bridgeLock, writerLock>>
    /\ UNCHANGED <<bridgeVars, launched, alive, relayVars, op, json, ghostVars, sends,
                   okSends, enc>>

\* a write whose error is swallowed
WriteAllMasksError(t, bytes, next, error) ==
    /\ stdin' = IF PipeOpen(stdin_writer[1])
                THEN [stdin EXCEPT ![stdin_writer[1]] = @ \o bytes] ELSE stdin
    /\ pc' = [pc EXCEPT ![t] = next]
    /\ UNCHANGED <<ret, bridgeLock, writerLock>>
    /\ UNCHANGED <<bridgeVars, launched, alive, relayVars, op, json, ghostVars, sends,
                   okSends, enc>>

\* write_all of bytes to the write endpoint; on an error the guard is dropped
\* and the error returned
WriteAll(t, bytes, next, error) ==
    /\ IF PipeOpen(stdin_writer[1])
       THEN /\ stdin' = [stdin EXCEPT ![stdin_writer[1]] = @ \o bytes]
            /\ pc' = [pc EXCEPT ![t] = next]
            /\ UNCHANGED <<ret, bridgeLock, writerLock>>
       ELSE /\ Return(t, Err(error))
            /\ writerLock' = None
            /\ UNCHANGED stdin
    /\ UNCHANGED <<bridgeVars, launched, alive, relayVars, op, json, ghostVars, sends,
                   okSends, enc>>

\* serde_json::to_string(&json), guard.write_all(line.as_bytes()) (74-77)
SendWrite(t) ==
    /\ pc[t] = "send_write"
    /\ WriteAll(t, to_string(json[t]), "send_nl", "write error")

\* guard.write_all(b"\n") (78-80)
SendNl(t) ==
    /\ pc[t] = "send_nl"
    /\ WriteAll(t, <<NL>>, "send_flush", "write newline error")

\* guard.flush(), Ok(()) and the handler's own Ok (81-82; run.rs 25, 38)
SendFlush(t) ==
    /\ pc[t] = "send_flush"
    /\ Return(t, Done(t))
    /\ writerLock' = None
    /\ okSends' = okSends + 1
    /\ UNCHANGED <<bridgeVars, procVars, relayVars, op, json, ghostVars, sends, enc>>


(***************************************************************************)
(* The bridge's methods called directly.  A &mut self method (spawn, kill, *)
(* drop) runs while no other call on the bridge is in progress; a &self    *)
(* method (send_command, is_running) runs beside other &self methods.      *)
(***************************************************************************)
Exclusive(t) == \A u \in Threads \ {t} : pc[u] = "idle"
Shared(t) == \A u \in Threads \ {t} : pc[u] \notin {"spawn_check", "spawn_launch", "kill"}

\* the values handed to send_command: its parameter is any serde_json::Value
RogueValue == Obj([type |-> Str("skip_gate")])
SendArgs ==
    {to_bridge_json([variant |-> "AbortRun", run_id |-> "a"]), RogueValue}

BridgeSend(t, value) ==
    /\ sends < MaxSends
    /\ Shared(t)
    /\ Begin(t, "send", value)
    /\ pc' = [pc EXCEPT ![t] = "send_get"]
    /\ sends' = sends + 1
    /\ UNCHANGED <<bridgeVars, procVars, relayVars, bridgeLock, writerLock, okSends, enc>>

BridgeSpawn(t) ==
    /\ launched < MaxSpawns
    /\ Exclusive(t)
    /\ Begin(t, "spawn", Null)
    /\ pc' = [pc EXCEPT ![t] = "spawn_check"]
    /\ UNCHANGED <<bridgeVars, procVars, relayVars, bridgeLock, writerLock, sends, okSends, enc>>

\* is_running never blocks: the call and its answer are one step
BridgeIsRunning(t) ==
    /\ Shared(t)
    /\ pc[t] = "idle"
    /\ ~dropped
    /\ op' = [op EXCEPT ![t] = "is_running"]
    /\ json' = [json EXCEPT ![t] = Null]
    /\ ret' = [ret EXCEPT ![t] = <<"bool", is_running>>]
    /\ found' = [found EXCEPT ![t] = "unset"]
    /\ spawned' = [spawned EXCEPT ![t] = 0]
    /\ UNCHANGED <<bridgeVars, procVars, relayVars, bridgeLock, writerLock, pc, sends,
                   okSends, enc>>

BridgeKill(t) ==
    /\ Exclusive(t)
    /\ Begin(t, "kill", Null)
    /\ pc' = [pc EXCEPT ![t] = "kill"]
    /\ UNCHANGED <<bridgeVars, procVars, relayVars, bridgeLock, writerLock, sends, okSends, enc>>

(***************************************************************************)
(* FactoryBridge::kill (bridge.rs 89-97).  The operating system reports    *)
(* the termination request and the wait as done or as failed:              *)
(*   "killed"    child.kill() and child.wait() succeed                     *)
(*   "kill_err"  child.kill() fails; the process is as it was              *)
(*   "wait_err"  child.kill() succeeds, child.wait() fails                 *)
(***************************************************************************)
KillOutcomes == {"killed", "kill_err", "wait_err"}

\* kill that reports an error when there is no process to terminate
KillResultIdleErr(outcome) ==
    CASE child = None -> Err("factory process not running")
      [] outcome = "killed" -> Ok("()")
      [] outcome = "kill_err" -> Err("kill error")
      [] outcome = "wait_err" -> Err("wait error")

KillResult(outcome) ==
    CASE child = None \/ outcome = "killed" -> Ok("()")
      [] outcome = "kill_err" -> Err("kill error")
      [] outcome = "wait_err" -> Err("wait error")

\* kill that clears the process handle and forgets the write endpoint
killKeepsWriter(outcome) ==
    IF child = None
    THEN UNCHANGED <<child, stdin_writer, alive>>
    ELSE CASE outcome = "killed" ->
                /\ alive' = alive \ {child[1]}
                /\ child' = None
                /\ UNCHANGED stdin_writer
           [] outcome = "kill_err" ->
                UNCHANGED <<alive, child, stdin_writer>>
           [] outcome = "wait_err" ->
                /\ alive' = alive \ {child[1]}
                /\ UNCHANGED <<child, stdin_writer>>

\* kill that clears the write endpoint and keeps the process handle
killKeepsHandle(outcome) ==
    IF child = None
    THEN UNCHANGED <<child, stdin_writer, alive>>
    ELSE CASE outcome = "killed" ->
                /\ alive' = alive \ {child[1]}
                /\ stdin_writer' = None
                /\ UNCHANGED child
           [] outcome = "kill_err" ->
                UNCHANGED <<alive, child, stdin_writer>>
           [] outcome = "wait_err" ->
                /\ alive' = alive \ {child[1]}
                /\ UNCHANGED <<child, stdin_writer>>

kill(outcome) ==
    IF child = None
    THEN /\ child' = None
         /\ stdin_writer' = None
         /\ UNCHANGED alive
    ELSE CASE outcome = "killed" ->
                /\ alive' = alive \ {child[1]}
                /\ child' = None
                /\ stdin_writer' = None
           [] outcome = "kill_err" ->
                UNCHANGED <<alive, child, stdin_writer>>
           [] outcome = "wait_err" ->
                /\ alive' = alive \ {child[1]}
                /\ UNCHANGED <<child, stdin_writer>>

Kill(t, outcome) ==
    /\ pc[t] = "kill"
    /\ child = None => outcome = "killed"
    /\ kill(outcome)
    /\ Return(t, KillResult(outcome))
    /\ UNCHANGED <<dropped, launched, stdin, relayVars, writerLock, op, json, ghostVars,
                   sends, okSends, enc>>

\* impl Drop for FactoryBridge: let _ = self.kill(); (bridge.rs 100-104).  The
\* bridge is discarded by its owner, when no call on it is in progress.
Drop(outcome) ==
    /\ ~dropped
    /\ \A t \in Threads : pc[t] = "idle"
    /\ child = None => outcome = "killed"
    /\ kill(outcome)
    /\ dropped' = TRUE
    /\ UNCHANGED <<launched, stdin, relayVars, bridgeLock, writerLock, pc, op, json, ret,
                   ghostVars, sends, okSends, enc>>

(***************************************************************************)
(* The worker process (an external collaborator) and the relay thread      *)
(* (bridge.rs 46-61).                                                      *)
(***************************************************************************)
EventLine == to_string(Obj([event |-> Str("x"), a |-> Num(1)]))
WorkerLines ==
    {EventLine,                                   \* {"event":"x","a":1}
     <<(<<"sp">>)>> \o EventLine \o <<(<<"sp">>)>>, \* the same between blanks
     to_string(Obj([a |-> Num(1)])),              \* JSON with no event name
     <<(<<"junk">>)>>,                            \* not json
     <<>>,                                        \* the empty line
     <<(<<"sp">>)>>,                              \* a whitespace-only line
     <<(<<"badutf8">>)>>}                         \* bytes that are no UTF-8

\* the worker writes one line to its output
WorkerEmit(p, text) ==
    /\ p \in alive
    /\ emitted < MaxEmit
    /\ stdout' = [stdout EXCEPT ![p] = Append(@, text)]
    /\ emitted' = emitted + 1
    /\ UNCHANGED <<bridgeVars, procVars, relay, relayed, published, bridgeLock, writerLock,
                   pc, op, json, ret, ghostVars, sends, okSends, enc>>

\* a bridge that notices the exit of its worker and becomes Idle
WorkerExitClearsHandle(p) ==
    /\ p \in alive
    /\ alive' = alive \ {p}
    /\ child' = IF child = Some(p) THEN None ELSE child
    /\ stdin_writer' = IF stdin_writer = Some(p) THEN None ELSE stdin_writer
    /\ UNCHANGED <<dropped, launched, stdin, relayVars, bridgeLock, writerLock,
                   pc, op, json, ret, ghostVars, sends, okSends, enc>>

\* the worker exits or crashes on its own
WorkerExit(p) ==
    /\ p \in alive
    /\ alive' = alive \ {p}
    /\ UNCHANGED <<bridgeVars, launched, stdin, relayVars, bridgeLock, writerLock,
                   pc, op, json, ret, ghostVars, sends, okSends, enc>>

\* a read that also fails on a line that is no JSON
ReadFailsOnJunk(text) ==
    \E i \in 1..Len(text) : text[i] \in {<<"badutf8">>, <<"junk">>}

\* BufRead::lines yields Err for a line that is not UTF-8 (and for an I/O error)
ReadFails(text) == \E i \in 1..Len(text) : text[i] = <<"badutf8">>

\* app_handle.emit(name, payload): one publication
Emit(name, payload) == [channel |-> name, payload |-> payload]

\* the raw publication made only for a line that parsed
relay_line_raw_when_parsed(text) ==
    IF trim(text) # <<>> /\ IsOk(FactoryEvent(text))
    THEN <<Emit("factory://" \o FactoryEvent(text)[2].event,
                <<"json", FactoryEvent(text)[2].data>>),
           Emit("factory://raw", <<"string", text>>)>>
    ELSE <<>>

\* the raw publication made before the structured one
relay_line_raw_first(text) ==
    IF trim(text) # <<>>
    THEN <<Emit("factory://raw", <<"string", text>>)>>
         \o (IF IsOk(FactoryEvent(text))
             THEN <<Emit("factory://" \o FactoryEvent(text)[2].event,
                         <<"json", FactoryEvent(text)[2].data>>)>>
             ELSE <<>>)
    ELSE <<>>

\* the body of the relay's loop for one line read as Ok(text) (bridge.rs 49-59)
relay_line(text) ==
    IF trim(text) # <<>>
    THEN (IF IsOk(FactoryEvent(text))
          THEN <<Emit("factory://" \o FactoryEvent(text)[2].event,
                      <<"json", FactoryEvent(text)[2].data>>)>>
          ELSE <<>>)
         \o <<Emit("factory://raw", <<"string", text>>)>>
    ELSE <<>>

\* one turn of for line in reader.lines() (bridge.rs 48-60)
RelayStep(p) ==
    /\ relay[p] = "running"
    /\ IF stdout[p] # <<>>
       THEN /\ stdout' = [stdout EXCEPT ![p] = Tail(@)]
            /\ IF ReadFails(Head(stdout[p]))
               THEN /\ relay' = [relay EXCEPT ![p] = "stopped"]
                    /\ UNCHANGED <<relayed, published>>
               ELSE /\ relayed' = [relayed EXCEPT ![p] = Append(@, Head(stdout[p]))]
                    /\ published' = [published EXCEPT ![p] = @ \o relay_line(Head(stdout[p]))]
                    /\ UNCHANGED relay
       ELSE /\ p \notin alive
            /\ relay' = [relay EXCEPT ![p] = "stopped"]
            /\ UNCHANGED <<stdout, relayed, published>>
    /\ UNCHANGED <<bridgeVars, procVars, emitted, bridgeLock, writerLock, pc, op, json, ret,
                   ghostVars, sends, okSends, enc>>

(***************************************************************************)
(* The specifications.                                                     *)
(***************************************************************************)
Next ==
    \/ \E t \in Threads, s \in SpecPaths, b \in BlueprintPaths : StartRun(t, s, b)
    \/ \E t \in Threads, r \in RunIds : AbortRun(t, r)
    \/ \E t \in Threads : CsLock(t)
    \/ \E t \in Threads : CsCheck(t)
    \/ \E t \in Threads : SpawnCheck(t)
    \/ \E t \in Threads, o \in LaunchOutcomes : SpawnLaunch(t, o)
    \/ \E t \in Threads : SendGet(t)
    \/ \E t \in Threads : SendLock(t)
    \/ \E t \in Threads : SendWrite(t)
    \/ \E t \in Threads : SendNl(t)
    \/ \E t \in Threads : SendFlush(t)
    \/ \E o \in KillOutcomes : Drop(o)
    \/ \E p \in Pids : WorkerExit(p)
    \/ \E p \in Pids : RelayStep(p)

Spec == Init /\ [][Next]_vars

\* The application under fair scheduling: a handler runs on a thread the
\* operating system schedules, so a step of it that stays possible is
\* eventually taken.  Process launches return, and a write to the worker's
\* input returns (the worker reads its input, or is gone).  Requests arrive,
\* workers exit and the bridge is discarded when they will.
Step(t) ==
    \/ CsLock(t)
    \/ CsCheck(t)
    \/ SpawnCheck(t)
    \/ \E o \in LaunchOutcomes : SpawnLaunch(t, o)
    \/ SendGet(t)
    \/ SendLock(t)
    \/ SendWrite(t)
    \/ SendNl(t)
    \/ SendFlush(t)

SpecLive == Spec /\ \A t \in Threads : WF_vars(Step(t))

NextBridge ==
    \/ \E t \in Threads : BridgeSpawn(t)
    \/ \E t \in Threads, v \in SendArgs : BridgeSend(t, v)
    \/ \E t \in Threads : BridgeIsRunning(t)
    \/ \E t \in Threads : BridgeKill(t)
    \/ \E t \in Threads : SpawnCheck(t)
    \/ \E t \in Threads, o \in LaunchOutcomes : SpawnLaunch(t, o)
    \/ \E t \in Threads : SendGet(t)
    \/ \E t \in Threads : SendLock(t)
    \/ \E t \in Threads : SendWrite(t)
    \/ \E t \in Threads : SendNl(t)
    \/ \E t \in Threads : SendFlush(t)
    \/ \E t \in Threads, o \in KillOutcomes : Kill(t, o)
    \/ \E o \in KillOutcomes : Drop(o)
    \/ \E p \in Pids : WorkerExit(p)
    \/ \E p \in Pids : RelayStep(p)

SpecBridge == Init /\ [][NextBridge]_vars

\* the relay beside one caller that spawns and kills workers
NextRelay ==
    \/ BridgeSpawn("t1")
    \/ SpawnCheck("t1")
    \/ \E o \in LaunchOutcomes : SpawnLaunch("t1", o)
    \/ BridgeKill("t1")
    \/ \E o \in KillOutcomes : Kill("t1", o)
    \/ \E p \in Pids, text \in WorkerLines : WorkerEmit(p, text)
    \/ \E p \in Pids : WorkerExit(p)
    \/ \E p \in Pids : RelayStep(p)

SpecRelay == Init /\ [][NextRelay]_vars

\* the relay of the worker of one bridge, from its spawn to the discard of the
\* bridge.  The relay is a thread of its own, which the operating system
\* schedules: a turn of its loop that stays possible is eventually taken.
NextRelayLive ==
    \/ BridgeSpawn("t1")
    \/ SpawnCheck("t1")
    \/ \E o \in LaunchOutcomes : SpawnLaunch("t1", o)
    \/ \E o \in KillOutcomes : Drop(o)
    \/ \E p \in Pids, text \in WorkerLines : WorkerEmit(p, text)
    \/ \E p \in Pids : WorkerExit(p)
    \/ \E p \in Pids : RelayStep(p)

SpecRelayLive == Init /\ [][NextRelayLive]_vars /\ \A p \in Pids : WF_vars(RelayStep(p))

\* one caller that spawns, sends and kills, with every exit of spawn
NextSpawn ==
    \/ BridgeSpawn("t1")
    \/ SpawnCheck("t1")
    \/ \E o \in SpawnOutcomes : SpawnLaunch("t1", o)
    \/ \E v \in SendArgs : BridgeSend("t1", v)
    \/ SendGet("t1")
    \/ SendLock("t1")
    \/ SendWrite("t1")
    \/ SendNl("t1")
    \/ SendFlush("t1")
    \/ BridgeKill("t1")
    \/ \E o \in KillOutcomes : Kill("t1", o)
    \/ \E o \in KillOutcomes : Drop(o)
    \/ \E p \in Pids : WorkerExit(p)
    \/ \E p \in Pids : RelayStep(p)

SpecSpawn == Init /\ [][NextSpawn]_vars


(***************************************************************************)
(* The command model evaluated on one command: classify, encode, and the   *)
(* worker's parse of the encoded line.                                     *)
(***************************************************************************)
Classify ==
    /\ enc.phase # "none"
    /\ enc.read_only = None
    /\ enc' = [enc EXCEPT !.read_only = Some(is_read_only(enc.cmd))]
    /\ UNCHANGED <<bridgeVars, procVars, relayVars, bridgeLock, writerLock, pc, op, json,
                   ret, ghostVars, sends, okSends>>

Encode ==
    /\ enc.phase = "command"
    /\ enc' = [enc EXCEPT !.phase = "encoded",
                          !.value = to_bridge_json(enc.cmd),
                          !.line = to_string(to_bridge_json(enc.cmd))]
    /\ UNCHANGED <<bridgeVars, procVars, relayVars, bridgeLock, writerLock, pc, op, json,
                   ret, ghostVars, sends, okSends>>

Reparse ==
    /\ enc.phase = "encoded"
    /\ enc' = [enc EXCEPT !.phase = "parsed", !.parsed = from_str(enc.line)]
    /\ UNCHANGED <<bridgeVars, procVars, relayVars, bridgeLock, writerLock, pc, op, json,
                   ret, ghostVars, sends, okSends>>

NextEncode == Classify \/ Encode \/ Reparse

SpecEncode == InitEncode /\ [][NextEncode]_vars


(***************************************************************************)
(* The lines of a worker's input: the tokens between line terminators.     *)
(***************************************************************************)
NlPositions(w) == {i \in 1..Len(w) : w[i] = NL}
FirstNl(w) == CHOOSE i \in NlPositions(w) : \A j \in NlPositions(w) : i <= j
LastNl(w) == CHOOSE i \in NlPositions(w) : \A j \in NlPositions(w) : j <= i

\* the terminated lines of w, in order
RECURSIVE CompleteLines(_)
CompleteLines(w) ==
    IF NlPositions(w) = {} THEN <<>>
    ELSE <<SubSeq(w, 1, FirstNl(w) - 1)>> \o CompleteLines(SubSeq(w, FirstNl(w) + 1, Len(w)))

\* what follows the last terminator of w
Unterminated(w) == IF NlPositions(w) = {} THEN w ELSE SubSeq(w, LastNl(w) + 1, Len(w))

\* every line of w, terminated or not
AllLines(w) == CompleteLines(w) \o (IF Unterminated(w) = <<>> THEN <<>> ELSE <<Unterminated(w)>>)

\* the number of terminated lines on all workers' inputs
CompleteCount ==
    Cardinality(UNION {{<<p, i>> : i \in 1..Len(CompleteLines(stdin[p]))} : p \in Pids})

(***************************************************************************)
(* C1.  Closed vocabulary on the wire: every line send_command has written *)
(* to a worker's input is the encoding of a command of the closed set, its *)
(* type one of start_run, abort_run, validate_spec, derive_spec, query,    *)
(* whatever the argument of the call.                                      *)
(***************************************************************************)
WireTypes == {Str("start_run"), Str("abort_run"), Str("validate_spec"), Str("derive_spec"),
              Str("query")}

IsCommandLine(line) ==
    /\ IsOk(from_str(line))
    /\ IsObj(from_str(line)[2])
    /\ "type" \in DOMAIN from_str(line)[2][2]
    /\ from_str(line)[2][2]["type"] \in WireTypes

\* C1: every line on every worker's input is a command line
C1_ClosedVocabularyOnWire ==
    \A p \in Pids : \A i \in 1..Len(AllLines(stdin[p])) : IsCommandLine(AllLines(stdin[p])[i])

(***************************************************************************)
(* C2.  Concurrent send_command calls never interleave: a worker's input   *)
(* is a sequence of complete lines, each exactly one encoded argument      *)
(* followed by one terminator; an unterminated line is one encoded         *)
(* argument whose writer still holds the write lock (or whose worker has   *)
(* exited, so that its terminator could not be written); and there are     *)
(* exactly as many complete lines as sends that wrote their terminator.    *)
(***************************************************************************)
EncodedArgs == {to_string(v) : v \in SendArgs}

\* C2: the inputs hold whole lines only, one per send that wrote its terminator
C2_SendsNotInterleaved ==
    /\ \A p \in Pids :
         /\ \A i \in 1..Len(CompleteLines(stdin[p])) : CompleteLines(stdin[p])[i] \in EncodedArgs
         /\ Unterminated(stdin[p]) # <<>> =>
              /\ Unterminated(stdin[p]) \in EncodedArgs
              /\ \/ p \notin alive
                 \/ \E t \in Threads : /\ writerLock = Some(t)
                                       /\ pc[t] = "send_nl"
                                       /\ stdin_writer = Some(p)
    /\ CompleteCount = okSends + Cardinality({t \in Threads : pc[t] = "send_flush"})

\* two sends with distinct payloads at once: one between its line and its
\* terminator, the other waiting for the write lock
C2_Witness ==
    \E t \in Threads, u \in Threads :
        /\ pc[t] = "send_nl"
        /\ pc[u] = "send_lock"
        /\ json[t] # json[u]


(***************************************************************************)
(* C3.  Under any interleaving of start_run and abort_run requests at most *)
(* one worker process is live, and no two requests in progress have both   *)
(* found the bridge Idle: the test, the spawn and the send of a start_run  *)
(* happen under one hold of the bridge lock.                               *)
(***************************************************************************)
InProgress(t) == pc[t] # "idle"

\* C3: at most one live worker; the holder of the bridge lock is the only
\* start_run past its lock step
C3_AtMostOneWorker ==
    /\ Cardinality(alive) <= 1
    /\ \A t \in Threads, u \in Threads :
         (t # u /\ InProgress(t) /\ InProgress(u)) => ~(found[t] = "idle" /\ found[u] = "idle")
    /\ \A t \in Threads :
         (InProgress(t) /\ op[t] = "start_run" /\ pc[t] \notin {"cs_lock"}) => bridgeLock = Some(t)

\* two start_run requests at once: one has found the bridge Idle and spawned
\* the worker, the other waits for the bridge lock
C3_Witness ==
    \E t \in Threads, u \in Threads :
        /\ op[t] = "start_run" /\ found[t] = "idle" /\ spawned[t] # 0 /\ InProgress(t)
        /\ op[u] = "start_run" /\ pc[u] = "cs_lock"

(***************************************************************************)
(* C4.  spawn on a Running bridge returns the already-running error,       *)
(* launches no process, starts no relay and leaves the process handle and  *)
(* the write endpoint as they were.                                        *)
(***************************************************************************)
\* C4: the step of spawn taken on a Running bridge
C4_SecondSpawnRefused ==
    [][\A t \in Threads :
         (pc[t] = "spawn_check" /\ child # None /\ pc'[t] # "spawn_check") =>
            /\ pc'[t] = "idle"
            /\ ret'[t] = Err("factory process already running")
            /\ UNCHANGED <<child, stdin_writer, launched, alive, relay>>]_vars

\* a direct spawn was refused while the first worker is held and alive
C4_Witness ==
    \E t \in Threads :
        /\ op[t] = "spawn"
        /\ ret[t] = Err("factory process already running")
        /\ child = Some(1) /\ launched = 1 /\ alive = {1}

(***************************************************************************)
(* C5.  send_command on an Idle bridge returns the not-running error and   *)
(* writes nothing; no send that returns before its write step writes a     *)
(* byte or changes the bridge.                                             *)
(***************************************************************************)
\* C5: the step of send_command taken on an Idle bridge, and every return of
\* send_command from before its write step
C5_SendOnIdleWritesNothing ==
    [][\A t \in Threads :
         /\ (pc[t] = "send_get" /\ child = None /\ pc'[t] # "send_get") =>
               /\ pc'[t] = "idle"
               /\ ret'[t] = Err("factory process not running")
         /\ (pc[t] \in {"send_get", "send_lock"} /\ pc'[t] = "idle") =>
               UNCHANGED <<stdin, child, stdin_writer, launched, alive, writerLock>>]_vars

\* a send was refused after a spawn and a kill
C5_Witness ==
    \E t \in Threads :
        /\ op[t] = "send"
        /\ ret[t] = Err("factory process not running")
        /\ launched >= 1 /\ child = None

(***************************************************************************)
(* C6.  After kill() returns on a Running bridge the bridge is Idle and    *)
(* the write endpoint is cleared, whether or not the termination request   *)
(* or the wait reported an error.                                          *)
(***************************************************************************)
\* C6: every return of kill leaves no handle and no write endpoint
C6_KillAlwaysLeavesIdle ==
    [][\A t \in Threads :
         (pc[t] = "kill" /\ pc'[t] = "idle") => (child' = None /\ stdin_writer' = None)]_vars

(***************************************************************************)
(* C7.  Once the bridge has been discarded, no worker process it launched  *)
(* is alive and its state is that of a fresh Idle bridge.                  *)
(***************************************************************************)
\* C7: a discarded bridge has no live worker, no handle, no write endpoint
C7_DropLeavesNoWorker ==
    dropped => (alive = {} /\ child = None /\ stdin_writer = None)


(***************************************************************************)
(* C8.  For the lines a relay has read, in order: one raw publication per  *)
(* line that is not blank, on the raw channel, carrying the line verbatim, *)
(* whether or not the line parses; one structured event, named             *)
(* factory://<name> and carrying the remaining fields, per line that       *)
(* parses as an event record; nothing for a blank line.                    *)
(***************************************************************************)
NonBlank(text) == \E i \in 1..Len(text) : text[i] # <<"sp">>

IsEventRecord(text) ==
    /\ IsOk(from_str(text))
    /\ IsObj(from_str(text)[2])
    /\ "event" \in DOMAIN from_str(text)[2][2]
    /\ IsStr(from_str(text)[2][2]["event"])

RawPubs(p) == SelectSeq(published[p], LAMBDA e : e.payload[1] = "string")
EventPubs(p) == SelectSeq(published[p], LAMBDA e : e.payload[1] = "json")
NonBlankRead(p) == SelectSeq(relayed[p], NonBlank)
EventsRead(p) == SelectSeq(relayed[p], LAMBDA text : NonBlank(text) /\ IsEventRecord(text))

\* C8: the raw and the structured publications of each relay, against the
\* lines it has read
C8_RelayPublications ==
    \A p \in Pids :
        /\ Len(RawPubs(p)) = Len(NonBlankRead(p))
        /\ \A i \in 1..Len(RawPubs(p)) :
             RawPubs(p)[i] = [channel |-> "factory://raw",
                              payload |-> <<"string", NonBlankRead(p)[i]>>]
        /\ Len(EventPubs(p)) = Len(EventsRead(p))
        /\ \A i \in 1..Len(EventPubs(p)) :
             LET f == from_str(EventsRead(p)[i])[2][2]
             IN EventPubs(p)[i] =
                  [channel |-> "factory://" \o f["event"][2],
                   payload |-> <<"json", Obj([k \in (DOMAIN f) \ {"event"} |-> f[k]])>>]

\* the worker wrote {"event":"x","a":1} and then a line that is no JSON: one
\* structured event x with payload {a:1} and two raw lines are published
C8_Witness ==
    \E p \in Pids :
        /\ relayed[p] = <<EventLine, <<(<<"junk">>)>>>>
        /\ Len(published[p]) = 3
        /\ published[p][1] = [channel |-> "factory://x",
                              payload |-> <<"json", Obj([a |-> Num(1)])>>]

(***************************************************************************)
(* C9.  As claimed: every state-changing request of the Control Surface    *)
(* (start_run, abort_run) that meets an Idle bridge has spawned the worker *)
(* by the time it sends.                                                   *)
(***************************************************************************)
Sending(t) == pc[t] \in {"send_get", "send_lock", "send_write", "send_nl", "send_flush"}

\* C9 as claimed: start_run and abort_run both spawn before they send
C9_EveryRequestSpawnsWhenIdle ==
    \A t \in Threads :
        (IsControl(t) /\ found[t] = "idle" /\ Sending(t)) =>
            (spawned[t] # 0 /\ child = Some(spawned[t]))

(***************************************************************************)
(* C9, amended.  A start_run request that meets an Idle bridge has spawned *)
(* the worker by the time it sends, and when it reports success its        *)
(* command line is the first line on the input of the worker it spawned.   *)
(* abort_run never spawns: a request that meets an Idle bridge returns the *)
(* not-running error.                                                      *)
(***************************************************************************)
\* C9 amended: start_run spawns before it sends, abort_run never spawns
C9_StartRunSpawnsWhenIdle ==
    \A t \in Threads :
        /\ (op[t] = "start_run" /\ found[t] = "idle" /\ Sending(t)) =>
              (spawned[t] # 0 /\ child = Some(spawned[t]) /\ stdin_writer = Some(spawned[t]))
        /\ (op[t] = "start_run" /\ found[t] = "idle" /\ ret[t] = Ok("run started")) =>
              /\ spawned[t] # 0
              /\ CompleteLines(stdin[spawned[t]]) # <<>>
              /\ CompleteLines(stdin[spawned[t]])[1] = to_string(json[t])
        /\ op[t] = "abort_run" => spawned[t] = 0
        /\ (op[t] = "abort_run" /\ found[t] = "idle" /\ pc[t] = "idle") =>
              ret[t] = Err("factory process not running")

\* an abort_run was refused on the Idle bridge, and a start_run then spawned
\* the worker and wrote its line
C9_Witness ==
    \E t \in Threads, u \in Threads :
        /\ op[t] = "start_run" /\ found[t] = "idle" /\ ret[t] = Ok("run started")
        /\ spawned[t] = 1
        /\ op[u] = "abort_run" /\ found[u] = "idle"
        /\ ret[u] = Err("factory process not running")

(***************************************************************************)
(* C10.  The fields of the re-parsed line, variant by variant.  With       *)
(* asDocumented the wire table is read as written: blueprintPath is not    *)
(* present when no blueprint path is given, and every query carries a      *)
(* params object.  Without it: blueprintPath is always present, null when  *)
(* no path is given, and a query with no parameter carries no params.      *)
(***************************************************************************)
QueryName(c) ==
    CASE c.variant = "GetRunStatus" -> "run_status"
      [] c.variant = "GetGateResults" -> "gate_results"
      [] c.variant = "GetEvidenceEntry" -> "evidence_entry"
      [] c.variant = "GetEvidenceRange" -> "evidence_range"
      [] c.variant = "GetArtifact" -> "artifact"
      [] c.variant = "GetConsequenceMemory" -> "consequence_memory"
      [] c.variant = "GetRunHistory" -> "run_history"

QueryParams(c) ==
    CASE c.variant = "GetEvidenceEntry" -> [seq |-> Num(c.seq)]
      [] c.variant = "GetEvidenceRange" -> [from |-> Num(c.from), to |-> Num(c.to)]
      [] c.variant = "GetArtifact" -> [path |-> Str(c.path)]
      [] c.variant = "GetConsequenceMemory" ->
           [domain |-> IF c.domain = None THEN Null ELSE Str(c.domain[1])]
      [] OTHER -> <<>>

HasFields(f, c, asDocumented) ==
    CASE c.variant = "StartRun" ->
           /\ DOMAIN f = IF asDocumented /\ c.blueprint_path = None
                         THEN {"type", "specPath"}
                         ELSE {"type", "specPath", "blueprintPath"}
           /\ f["type"] = Str("start_run")
           /\ f["specPath"] = Str(c.spec_path)
           /\ c.blueprint_path # None => f["blueprintPath"] = Str(c.blueprint_path[1])
           /\ (c.blueprint_path = None /\ ~asDocumented) => f["blueprintPath"] = Null
      [] c.variant = "AbortRun" ->
           f = [type |-> Str("abort_run"), runId |-> Str(c.run_id)]
      [] c.variant = "ValidateSpec" ->
           f = [type |-> Str("validate_spec"), specPath |-> Str(c.spec_path)]
      [] c.variant = "DeriveSpecFromPlan" ->
           f = [type |-> Str("derive_spec"), planText |-> Str(c.plan_text)]
      [] OTHER ->
           /\ DOMAIN f = IF asDocumented \/ QueryParams(c) # <<>>
                         THEN {"type", "queryType", "params"}
                         ELSE {"type", "queryType"}
           /\ f["type"] = Str("query")
           /\ f["queryType"] = Str(QueryName(c))
           /\ "params" \in DOMAIN f => f["params"] = Obj(QueryParams(c))

Reparsed(asDocumented) ==
    enc.phase = "parsed" =>
        /\ IsOk(enc.parsed)
        /\ IsObj(enc.parsed[2])
        /\ {"type"} \subseteq DOMAIN enc.parsed[2][2]
        /\ HasFields(enc.parsed[2][2], enc.cmd, asDocumented)

\* C10 as claimed: the re-parsed line has exactly the fields of the wire table
C10_RoundTripAsDocumented == Reparsed(TRUE)

\* C10 amended: encode is defined for every command, its line holds no line
\* terminator, and the re-parsed line has the fields the code writes
C10_RoundTrip ==
    /\ Reparsed(FALSE)
    /\ enc.phase \in {"encoded", "parsed"} => (enc.line # <<>> /\ NlPositions(enc.line) = {})

\* a start run with no blueprint path, and a query with no parameter, re-parsed
C10_Witness ==
    /\ enc.phase = "parsed"
    /\ enc.cmd = [variant |-> "StartRun", spec_path |-> "a", blueprint_path |-> None]
    /\ enc.parsed[2][2]["blueprintPath"] = Null

(***************************************************************************)
(* C11.  classify answers for every command of the closed set, whatever    *)
(* its parameters: read-only for the seven queries, state-changing for     *)
(* start run, abort run, validate spec and derive spec.                    *)
(***************************************************************************)
StateChanging(c) == c.variant \in {"StartRun", "AbortRun", "ValidateSpec", "DeriveSpecFromPlan"}

\* C11: the answer of classify is read-only exactly for the queries, and the
\* four other variants are exactly the commands that are no query
C11_ClassifyExact ==
    /\ enc.phase # "none" =>
          /\ enc.cmd \in FactoryCommand
          /\ StateChanging(enc.cmd) <=> enc.cmd \notin QueryCommands
    /\ (enc.phase # "none" /\ enc.read_only # None) =>
          /\ enc.read_only[1] \in BOOLEAN
          /\ enc.read_only[1] <=> enc.cmd \in QueryCommands
          /\ ~enc.read_only[1] <=> StateChanging(enc.cmd)

\* validate spec, which changes no run, has been classified state-changing
C11_Witness ==
    /\ enc.phase # "none"
    /\ enc.cmd.variant = "ValidateSpec"
    /\ enc.read_only = Some(FALSE)

(***************************************************************************)
(* C12.  kill() on an Idle bridge returns success and changes nothing: no  *)
(* process is launched, none is terminated, no relay is started, nothing   *)
(* is written, and the bridge is Idle with no write endpoint afterwards.   *)
(***************************************************************************)
\* C12: the step of kill taken on an Idle bridge
C12_KillOnIdleIsNoOp ==
    [][\A t \in Threads :
         (pc[t] = "kill" /\ child = None /\ pc'[t] # "kill") =>
            /\ pc'[t] = "idle"
            /\ ret'[t] = Ok("()")
            /\ child' = None
            /\ stdin_writer' = None
            /\ stdin_writer = None
            /\ UNCHANGED <<launched, alive, stdin, relay, published>>]_vars

\* kill has returned success on a bridge that never launched a worker
C12_Witness ==
    \E t \in Threads :
        /\ op[t] = "kill" /\ pc[t] = "idle"
        /\ ret[t] = Ok("()")
        /\ launched = 0 /\ child = None /\ stdin_writer = None

Stale == child # None /\ child[1] \notin alive

\* C14: the steps that give up the handle, the answers on a stale bridge,
\* and the launch of the next worker
C14_StaleUntilKill ==
    [][/\ (child # None /\ child' # child) =>
            /\ child' = None
            /\ \/ \E t \in Threads : pc[t] = "kill" /\ pc'[t] = "idle"
               \/ ~dropped /\ dropped'
       /\ \A t \in Threads :
            /\ (op'[t] = "is_running" /\ (op[t] # "is_running" \/ ret'[t] # ret[t])) =>
                  ret'[t] = <<"bool", child # None>>
            /\ (pc[t] = "spawn_check" /\ Stale /\ pc'[t] # "spawn_check") =>
                  /\ pc'[t] = "idle"
                  /\ ret'[t] = Err("factory process already running")
                  /\ UNCHANGED <<child, stdin_writer, launched, alive>>
       /\ launched' # launched => (child = None /\ launched' = launched + 1)]_vars

\* the worker is gone, is_running has answered true, and a spawn stands at
\* its test on the bridge that still holds the handle
C14_Witness ==
    \E t \in Threads, u \in Threads :
        /\ pc[t] = "spawn_check"
        /\ child = Some(1) /\ alive = {} /\ launched = 1
        /\ op[u] = "is_running" /\ ret[u] = <<"bool", TRUE>>

(***************************************************************************)
(* C15.  The relay leaves its loop only on a failed read or at the end of  *)
(* the stream.  A readable line that is not blank, JSON or not, event or   *)
(* not, is published on the raw channel and leaves the relay running; a    *)
(* relay that has stopped publishes nothing; and once the worker is gone   *)
(* its relay stops.                                                        *)
(***************************************************************************)
IsUtf8(text) == \A i \in 1..Len(text) : text[i] # <<"badutf8">>

ReadsLine(p) == relay[p] = "running" /\ stdout[p] # <<>> /\ stdout'[p] = Tail(stdout[p])

\* C15: why a relay stops, what a protocol error does to it, and its end
C15_RelayStopsOnlyAtEnd ==
    /\ [][\A p \in Pids :
            /\ (relay[p] = "running" /\ relay'[p] # "running") =>
                  /\ relay'[p] = "stopped"
                  /\ \/ stdout[p] # <<>> /\ ~IsUtf8(Head(stdout[p]))
                     \/ stdout[p] = <<>> /\ p \notin alive
            /\ (ReadsLine(p) /\ IsUtf8(Head(stdout[p]))) =>
                  /\ relay'[p] = "running"
                  /\ relayed'[p] = Append(relayed[p], Head(stdout[p]))
                  /\ NonBlank(Head(stdout[p])) =>
                        /\ Len(published'[p]) > Len(published[p])
                        /\ published'[p][Len(published'[p])] =
                              [channel |-> "factory://raw",
                               payload |-> <<"string", Head(stdout[p])>>]
            /\ relay[p] # "running" =>
                  /\ published'[p] = published[p]
                  /\ relayed'[p] = relayed[p]
                  /\ relay[p] = "stopped" => relay'[p] = "stopped"]_vars
    /\ \A p \in Pids : (relay[p] = "running" /\ p \notin alive) ~> (relay[p] = "stopped")

\* a relay has read a line that is no JSON and a JSON line with no event
\* name, has published both raw, and has stopped at the end of the stream
C15_Witness ==
    \E p \in Pids :
        /\ relayed[p] = << <<(<<"junk">>)>>, to_string(Obj([a |-> Num(1)])) >>
        /\ Len(published[p]) = 2
        /\ p \notin alive
        /\ stdout[p] = <<>>
        /\ relay[p] = "stopped"

(***************************************************************************)
(* C16.  On an Idle bridge spawn is not refused, and a spawn that succeeds *)
(* sets the handle and a write endpoint of the worker it launched, whose   *)
(* input is empty.  Whatever the spawns and kills before, every write goes *)
(* to the input of the worker launched last, which the bridge holds and    *)
(* which is alive: never to a worker that was killed.                      *)
(***************************************************************************)
\* C16: the write endpoint is that of the last worker, and every write uses it
C16_WritesToLatestWorker ==
    /\ [](stdin_writer # None => (stdin_writer = Some(launched) /\ child = stdin_writer))
    /\ [][/\ \A p \in Pids :
              stdin'[p] # stdin[p] =>
                 /\ p = launched
                 /\ stdin_writer = Some(p)
                 /\ child = Some(p)
                 /\ p \in alive
                 /\ \A q \in Pids \ {p} : stdin'[q] = stdin[q]
          /\ \A t \in Threads :
              (pc[t] = "spawn_check" /\ child = None /\ pc'[t] # "spawn_check") =>
                 pc'[t] = "spawn_launch"
          /\ child' \notin {child, None} =>
                 /\ child = None /\ stdin_writer = None
                 /\ launched' = launched + 1
                 /\ child' = Some(launched')
                 /\ stdin_writer' = Some(launched')
                 /\ launched' \in alive'
                 /\ stdin'[launched'] = <<>>]_vars

\* the first worker received a line and was killed, the second was spawned
\* and received a line
C16_Witness ==
    /\ launched = 2
    /\ child = Some(2) /\ stdin_writer = Some(2)
    /\ 1 \notin alive
    /\ CompleteLines(stdin[1]) # <<>>
    /\ CompleteLines(stdin[2]) # <<>>
    /\ okSends = 2

(***************************************************************************)
(* C17.  A request of the Control Surface passes each of its steps at most *)
(* once, in order: lock, test, spawn, send; so it spawns at most once and  *)
(* sends at most once.  It reports success only from the flush of its own  *)
(* line, the last line on the input of the worker the bridge holds.  A     *)
(* spawn error ends a start_run with that error, nothing written and the   *)
(* bridge Idle; a send error after its spawn ends it with that error and   *)
(* the bridge Running.  An abort_run never reaches a step of spawn.        *)
(***************************************************************************)
Rank(position) ==
    CASE position = "cs_lock" -> 1
      [] position = "cs_check" -> 2
      [] position = "spawn_check" -> 3
      [] position = "spawn_launch" -> 4
      [] position = "send_get" -> 5
      [] position = "send_lock" -> 6
      [] position = "send_write" -> 7
      [] position = "send_nl" -> 8
      [] position = "send_flush" -> 9
      [] position = "idle" -> 10

SpawnErrors == {Err("failed to spawn factory"), Err("no stdout"), Err("no stdin"),
                Err("factory process already running")}
SendErrors == {Err("factory process not running"), Err("write error"),
               Err("write newline error")}

\* C17: no retry, no masking
C17_NoRetryNoMasking ==
    [][\A t \in Threads :
         /\ (IsControl(t) /\ pc[t] # "idle" /\ pc'[t] # pc[t]) =>
               /\ Rank(pc'[t]) > Rank(pc[t])
               /\ op'[t] = op[t]
               /\ json'[t] = json[t]
         /\ (IsControl(t) /\ pc[t] # "idle" /\ pc'[t] = "idle" /\ IsOk(ret'[t])) =>
               /\ pc[t] = "send_flush"
               /\ ret'[t] = Done(t)
               /\ child # None /\ stdin_writer = child
               /\ CompleteLines(stdin[child[1]]) # <<>>
               /\ CompleteLines(stdin[child[1]])[Len(CompleteLines(stdin[child[1]]))]
                     = to_string(json[t])
               /\ Unterminated(stdin[child[1]]) = <<>>
         /\ (IsControl(t) /\ pc[t] \in {"spawn_check", "spawn_launch"} /\ pc'[t] = "idle") =>
               /\ ret'[t] \in SpawnErrors
               /\ child' = None /\ stdin_writer' = None
               /\ UNCHANGED <<stdin, launched, alive>>
         /\ (IsControl(t) /\ Sending(t) /\ pc'[t] = "idle" /\ ~IsOk(ret'[t])) =>
               /\ ret'[t] \in SendErrors
               /\ UNCHANGED <<child, stdin_writer, launched, alive>>
               /\ spawned[t] # 0 => child' = Some(spawned[t])
         /\ (op[t] = "abort_run" /\ pc[t] # "idle") =>
               /\ pc[t] \notin {"cs_check", "spawn_check", "spawn_launch"}
               /\ pc'[t] # pc[t] => UNCHANGED <<launched, child, stdin_writer>>]_vars

\* one start_run has returned the spawn error and left the bridge Idle; the
\* next has spawned the worker, which exited, and has returned the write error
\* with the bridge still Running
C17_Witness ==
    \E t \in Threads, u \in Threads :
        /\ op[u] = "start_run" /\ pc[u] = "idle" /\ spawned[u] = 0
        /\ ret[u] = Err("failed to spawn factory")
        /\ op[t] = "start_run" /\ pc[t] = "idle" /\ spawned[t] = 1
        /\ ret[t] = Err("write error")
        /\ child = Some(1) /\ stdin[1] = <<>>

(***************************************************************************)
(* C18.  The process handle and the write endpoint are present together or *)
(* absent together, and belong to the same worker, in every state between  *)
(* two steps of the bridge's methods, after failed spawns and failed kills *)
(* too.  So a send is refused with not-running exactly when is_running is  *)
(* false.                                                                  *)
(***************************************************************************)
\* C18: handle and write endpoint go together; the first step of a send
\* agrees with is_running
C18_HandleIffEndpoint ==
    /\ []((child = None) <=> (stdin_writer = None))
    /\ [](child # None => child = stdin_writer)
    /\ [][\A t \in Threads :
            (pc[t] = "send_get" /\ pc'[t] # "send_get") =>
               /\ (child = None) =>
                     (pc'[t] = "idle" /\ ret'[t] = Err("factory process not running"))
               /\ (child # None) => pc'[t] = "send_lock"]_vars

\* a kill has failed and left the bridge Running, and a send has passed its
\* first step on it
C18_Witness ==
    \E t \in Threads, u \in Threads :
        /\ op[u] = "kill" /\ pc[u] = "idle" /\ ret[u] = Err("kill error")
        /\ op[t] = "send" /\ pc[t] = "send_lock"
        /\ child = Some(1) /\ stdin_writer = Some(1)

(***************************************************************************)
(* C19.  The relay reads the lines of its worker in the order they were    *)
(* written, and its publications are, line by line in the order read: for  *)
(* a blank line nothing; for a line that parses as an event record its     *)
(* structured event and then the line raw; for any other line the line     *)
(* raw.  So no line is lost, repeated or overtaken, and the event of a     *)
(* line comes after every publication of the lines before it and just      *)
(* before its own raw publication.                                         *)
(***************************************************************************)
PubsOfLine(text) ==
    IF ~NonBlank(text) THEN <<>>
    ELSE IF IsEventRecord(text)
    THEN <<[channel |-> "factory://" \o from_str(text)[2][2]["event"][2],
            payload |-> <<"json", Obj([k \in (DOMAIN from_str(text)[2][2]) \ {"event"} |->
                                          from_str(text)[2][2][k]])>>],
           [channel |-> "factory://raw", payload |-> <<"string", text>>]>>
    ELSE <<[channel |-> "factory://raw", payload |-> <<"string", text>>]>>

RECURSIVE PubsOfLines(_)
PubsOfLines(lines) ==
    IF lines = <<>> THEN <<>> ELSE PubsOfLine(Head(lines)) \o PubsOfLines(Tail(lines))

\* C19: the publications are those of the lines read, in order; a read takes
\* the oldest unread line
C19_RelayOrder ==
    /\ [](\A p \in Pids : published[p] = PubsOfLines(relayed[p]))
    /\ [][\A p \in Pids :
            /\ relayed'[p] # relayed[p] =>
                  /\ stdout[p] # <<>>
                  /\ relayed'[p] = Append(relayed[p], Head(stdout[p]))
                  /\ stdout'[p] = Tail(stdout[p])
            /\ (stdout'[p] # stdout[p] /\ relayed'[p] = relayed[p]) =>
                  \/ \E text \in WorkerLines : stdout'[p] = Append(stdout[p], text)
                  \/ stdout'[p] = Tail(stdout[p]) /\ ~IsUtf8(Head(stdout[p]))]_vars

\* a line that is no JSON and then an event were read: the publications are
\* the first line raw, the event, the second line raw
C19_Witness ==
    \E p \in Pids :
        /\ relayed[p] = << <<(<<"junk">>)>>, EventLine >>
        /\ Len(published[p]) = 3
        /\ published[p][1] = [channel |-> "factory://raw",
                              payload |-> <<"string", <<(<<"junk">>)>> >>]
        /\ published[p][2].channel = "factory://x"
        /\ published[p][3] = [channel |-> "factory://raw",
                              payload |-> <<"string", EventLine>>]

(***************************************************************************)
(* C20.  The locks are taken in one order, the bridge lock and then the    *)
(* write lock, and the relay takes neither.  A request that waits for the  *)
(* bridge lock holds no lock; a request that asks for the write lock holds *)
(* the bridge lock and finds the write lock free.  Under fair scheduling   *)
(* every request returns, holding no lock afterwards.                      *)
(***************************************************************************)
Holds(t, lock) == lock = Some(t)

\* C20: no circular wait, and every request returns
C20_NoDeadlock ==
    /\ [](\A t \in Threads :
             /\ Holds(t, writerLock) => Holds(t, bridgeLock)
             /\ pc[t] \in {"idle", "cs_lock"} => (~Holds(t, bridgeLock) /\ ~Holds(t, writerLock))
             /\ pc[t] = "send_lock" => (Holds(t, bridgeLock) /\ writerLock = None)
             /\ Holds(t, writerLock) <=> pc[t] \in {"send_write", "send_nl", "send_flush"})
    /\ [](\A p \in Pids :
             (relay[p] = "running" /\ (stdout[p] # <<>> \/ p \notin alive)) =>
                ENABLED RelayStep(p))
    /\ [][\A p \in Pids :
            (relay[p] = "running" /\ (relay'[p] = "stopped" \/ relayed'[p] # relayed[p])) =>
               UNCHANGED <<bridgeLock, writerLock, pc>>]_vars
    /\ \A t \in Threads : (pc[t] # "idle") ~> (pc[t] = "idle" /\ ret[t] # NoRet)

\* one request holds both locks, between its line and its terminator, while
\* the other waits for the bridge lock
C20_Witness ==
    \E t \in Threads, u \in Threads :
        /\ pc[t] = "send_nl"
        /\ bridgeLock = Some(t) /\ writerLock = Some(t)
        /\ pc[u] = "cs_lock"

====
